---------------------------- MODULE Spec2Model ----------------------------
(***************************************************************************)
(* Model of the recursive object-storage download clients S3Download      *)
(* (src/common/aws_s3_download.py) and GoogleStorageDownload               *)
(* (src/common/google_download.py).                                        *)
(*                                                                         *)
(* Strings are sequences of one-character strings.  The Python string     *)
(* methods the clients use are operators that compute what the methods     *)
(* compute.                                                                *)
(***************************************************************************)
EXTENDS Integers, Sequences, FiniteSets, TLC

(* ----------------------------- bounds ---------------------------------- *)
\* longest container name drawn for the locator parsers
MaxContainerLen == 2
\* longest object prefix drawn for the locator parsers
MaxPrefixLen == 3

\* Python None, where a string is expected
None == <<"None">>
\* a value that is not a string (and is true), where a string is expected
NotStr == <<"NotStr">>
\* the value None where a list of object names is expected
NoKeys == <<None>>
\* the result of a call that has not returned yet
Pending == [bucket_name |-> <<"?">>, object_name |-> <<"?">>]

(* ------------------------- Python str methods -------------------------- *)
\* str.startswith
StartsWith(s, p) == Len(s) >= Len(p) /\ SubSeq(s, 1, Len(p)) = p

\* s[n:]
Drop(s, n) == SubSeq(s, n + 1, Len(s))

RECURSIVE StrReplace(_, _, _)
\* str.replace(old, new): every non-overlapping occurrence, left to right
StrReplace(s, old, new) ==
    IF old = <<>>
    THEN IF s = <<>> THEN new ELSE new \o <<Head(s)>> \o StrReplace(Tail(s), old, new)
    ELSE IF Len(s) < Len(old) THEN s
    ELSE IF StartsWith(s, old) THEN new \o StrReplace(Drop(s, Len(old)), old, new)
    ELSE <<Head(s)>> \o StrReplace(Tail(s), old, new)

RECURSIVE SplitFirst(_)
\* s.split('/')[0]
SplitFirst(s) ==
    IF s = <<>> \/ Head(s) = "/" THEN <<>> ELSE <<Head(s)>> \o SplitFirst(Tail(s))

RECURSIVE SplitLast(_)
\* s.split('/')[-1]
SplitLast(s) ==
    IF s = <<>> THEN <<>>
    ELSE IF s[Len(s)] = "/" THEN <<>>
    ELSE SplitLast(SubSeq(s, 1, Len(s) - 1)) \o <<s[Len(s)]>>

(* --------------------------- locator parsing --------------------------- *)
S3Scheme == <<"s", "3", ":", "/", "/">>
GsScheme == <<"g", "s", ":", "/", "/">>
Scheme(c) == IF c = "s3" THEN S3Scheme ELSE GsScheme

\* S3Download._s3_path_parser
S3PathParser(s3_path) ==
    LET p == IF StartsWith(s3_path, S3Scheme) THEN StrReplace(s3_path, S3Scheme, <<>>) ELSE s3_path
        bucket_name == SplitFirst(p)
        tail == StrReplace(p, bucket_name \o <<"/">>, <<>>)
    IN  [bucket_name |-> bucket_name, object_name |-> tail]

\* GoogleStorageDownload._parse_gs_path
ParseGsPath(gs_path) ==
    IF ~StartsWith(gs_path, GsScheme)
    THEN [bucket_name |-> None, object_name |-> None]
    ELSE LET p == StrReplace(gs_path, GsScheme, <<>>)
             bucket_name == SplitFirst(p)
             blob_name == StrReplace(p, bucket_name \o <<"/">>, <<>>)
         IN  [bucket_name |-> bucket_name, object_name |-> blob_name]

(* ------------------------------ os.path -------------------------------- *)
\* str.endswith
EndsWith(s, p) == Len(s) >= Len(p) /\ SubSeq(s, Len(s) - Len(p) + 1, Len(s)) = p

RECURSIVE RStripSlash(_)
\* s.rstrip('/')
RStripSlash(s) ==
    IF s # <<>> /\ s[Len(s)] = "/" THEN RStripSlash(SubSeq(s, 1, Len(s) - 1)) ELSE s

\* posixpath.dirname
Dirname(p) ==
    LET head == SubSeq(p, 1, Len(p) - Len(SplitLast(p)))
    IN  IF head # <<>> /\ RStripSlash(head) # <<>> THEN RStripSlash(head) ELSE head

\* posixpath.join of two components
Join(a, b) ==
    IF StartsWith(b, <<"/">>) THEN b
    ELSE IF a = <<>> \/ EndsWith(a, <<"/">>) THEN a \o b
    ELSE a \o <<"/">> \o b

RECURSIVE SplitAll(_)
\* s.split('/')
SplitAll(s) ==
    IF \A k \in 1..Len(s) : s[k] # "/" THEN <<s>>
    ELSE <<SplitFirst(s)>> \o SplitAll(Drop(s, Len(SplitFirst(s)) + 1))

RECURSIVE NormComps(_, _, _)
\* the component loop of posixpath.normpath
NormComps(comps, new_comps, initial_slashes) ==
    IF comps = <<>> THEN new_comps
    ELSE LET comp == Head(comps)
             rest == Tail(comps)
         IN  IF comp = <<>> \/ comp = <<".">>
             THEN NormComps(rest, new_comps, initial_slashes)
             ELSE IF \/ comp # <<".", ".">>
                     \/ (initial_slashes = 0 /\ new_comps = <<>>)
                     \/ (new_comps # <<>> /\ new_comps[Len(new_comps)] = <<".", ".">>)
             THEN NormComps(rest, Append(new_comps, comp), initial_slashes)
             ELSE IF new_comps # <<>>
             THEN NormComps(rest, SubSeq(new_comps, 1, Len(new_comps) - 1), initial_slashes)
             ELSE NormComps(rest, new_comps, initial_slashes)

RECURSIVE JoinComps(_)
\* '/'.join(comps)
JoinComps(comps) ==
    IF comps = <<>> THEN <<>>
    ELSE IF Len(comps) = 1 THEN comps[1]
    ELSE comps[1] \o <<"/">> \o JoinComps(Tail(comps))

\* posixpath.normpath
NormPath(p) ==
    IF p = <<>> THEN <<".">>
    ELSE LET initial_slashes ==
                 IF ~StartsWith(p, <<"/">>) THEN 0
                 ELSE IF StartsWith(p, <<"/", "/">>) /\ ~StartsWith(p, <<"/", "/", "/">>) THEN 2
                 ELSE 1
             body == JoinComps(NormComps(SplitAll(p), <<>>, initial_slashes))
             path == [k \in 1..initial_slashes |-> "/"] \o body
         IN  IF path = <<>> THEN <<".">> ELSE path

\* posixpath.expanduser: only a path that starts with '~' is changed, and the
\* home directory is not part of the model
ExpandUser(p) == IF StartsWith(p, <<"~">>) THEN <<"/", "h">> \o Drop(p, 1) ELSE p

\* S3Download._standardize_dir_path, GoogleStorageDownload._normalize_dir_path
\* on a POSIX host
StandardizeDirPath(dir_path) ==
    IF EndsWith(dir_path, <<"/">>) THEN dir_path ELSE dir_path \o <<"/">>

(* ------------------------ os.path on Windows -------------------------- *)
\* ntpath, for the paths without a drive letter and without a UNC prefix
Backslash == "\\"
IsSep(c) == c = "/" \/ c = Backslash

\* str.replace('/', '\\') and its inverse
ToBackslash(s) == [k \in 1..Len(s) |-> IF s[k] = "/" THEN Backslash ELSE s[k]]
ToSlash(s) == [k \in 1..Len(s) |-> IF s[k] = Backslash THEN "/" ELSE s[k]]

RECURSIVE RStripSeps(_)
\* s.rstrip('/\\')
RStripSeps(s) ==
    IF s # <<>> /\ IsSep(s[Len(s)]) THEN RStripSeps(SubSeq(s, 1, Len(s) - 1)) ELSE s

\* ntpath.dirname
NtDirname(p) ==
    LET seps == {k \in 1..Len(p) : IsSep(p[k])}
        i == IF seps = {} THEN 0 ELSE CHOOSE k \in seps : \A j \in seps : j <= k
        head == SubSeq(p, 1, i)
    IN  IF RStripSeps(head) # <<>> THEN RStripSeps(head) ELSE head

\* ntpath.join of two components
NtJoin(a, b) ==
    IF b # <<>> /\ IsSep(b[1]) THEN b
    ELSE IF a # <<>> /\ ~IsSep(a[Len(a)]) THEN a \o <<Backslash>> \o b
    ELSE a \o b

\* ntpath.normpath
NtNormPath(p) ==
    LET q == ToSlash(p)
        rooted == StartsWith(q, <<"/">>)
        body == JoinComps(NormComps(SplitAll(q), <<>>, IF rooted THEN 1 ELSE 0))
        path == (IF rooted THEN <<"/">> ELSE <<>>) \o body
    IN  IF path = <<>> THEN <<".">> ELSE ToBackslash(path)

\* ntpath.expanduser: only a path that starts with '~' is changed
NtExpandUser(p) == IF StartsWith(p, <<"~">>) THEN <<Backslash, "h">> \o Drop(p, 1) ELSE p

\* S3Download._standardize_dir_path, GoogleStorageDownload._normalize_dir_path
\* on a Windows host
StandardizeDirPathWin(dir_path) ==
    IF EndsWith(dir_path, <<Backslash>>) THEN dir_path ELSE dir_path \o <<Backslash>>

(* ----------------------------- input sets ------------------------------ *)
RECURSIVE Words(_, _)
\* all strings over alphabet A of length at most n
Words(A, n) ==
    IF n = 0 THEN {<<>>}
    ELSE LET W == Words(A, n - 1) IN W \cup {<<a>> \o w : a \in A, w \in {x \in W : Len(x) = n - 1}}

ContainerNames == Words({"a", "b"}, MaxContainerLen) \ {<<>>}
ObjectPrefixes == Words({"a", "b", "/"}, MaxPrefixLen)

(* ------------------------- the download clients ------------------------ *)
\* most objects under the listed prefix of the remote container
MaxObjects == 2
\* largest pool size a client class is configured with
MaxProc == 2
\* calls of recursive_download made on one client instance
MaxRuns == 2

\* S3Download.NUM_PROC, GoogleStorageDownload.NUM_PROC
NUM_PROC == 1

\* the object names the remote container can hold, in key order
Universe == << <<"p", "/", "a", "/", "x">>, <<"p", "/", "b", "/", "x">>, <<"p", "/", "x">> >>

RECURSIVE Pick(_, _)
\* the names of Universe whose index is in S, in key order
Pick(S, k) ==
    IF k > Len(Universe) THEN <<>>
    ELSE (IF k \in S THEN <<Universe[k]>> ELSE <<>>) \o Pick(S, k + 1)

Remotes == {Pick(S, 1) : S \in {T \in SUBSET (1..Len(Universe)) : Cardinality(T) <= MaxObjects}}

\* the locator string written for container c and prefix p, with or without
\* the scheme marker and the separator after the container, and its parts
LocatorOf(cl, marker, c, slash, p) ==
    [client |-> cl, marker |-> marker, container |-> c, slash |-> slash, prefix |-> p,
     locator |-> (IF marker THEN Scheme(cl) ELSE <<>>) \o c
                     \o (IF slash THEN <<"/">> ELSE <<>>) \o p]

\* the locator and the destination directory the caller passes
Locator(cl) == Scheme(cl) \o <<"k", "/", "p", "/">>
BaseDstDir == <<"/", "o">>

\* the values the caller passes for the optional arguments: the defaults, or
\* a prefix override together with an exclude pattern
OptionChoices ==
    {[prefix_to_replace |-> None, include_re_pattern |-> None, exclude_re_pattern |-> None],
     [prefix_to_replace |-> <<"p", "/", "a">>, include_re_pattern |-> <<"x">>,
      exclude_re_pattern |-> <<"b">>]}

\* the calls with arguments of the documented types
WellTypedChoices(cl) ==
    {[s3_path |-> Locator(cl), base_dst_dir |-> BaseDstDir,
      folder_map |-> f, overwrite |-> o, prefix_to_replace |-> c.prefix_to_replace,
      include_re_pattern |-> c.include_re_pattern,
      exclude_re_pattern |-> c.exclude_re_pattern] :
        f \in BOOLEAN, o \in BOOLEAN, c \in OptionChoices}

NoArgs == [s3_path |-> None, base_dst_dir |-> None,
           folder_map |-> TRUE, overwrite |-> FALSE, prefix_to_replace |-> None,
           include_re_pattern |-> None, exclude_re_pattern |-> None]

\* the calls with one argument that is not a string: the locator, the
\* destination directory, the prefix override or the include pattern
MalformedChoices(cl) ==
    LET good == [NoArgs EXCEPT !.s3_path = Locator(cl), !.base_dst_dir = BaseDstDir]
    IN  {[good EXCEPT !.s3_path = NotStr],
         [good EXCEPT !.base_dst_dir = NotStr],
         [good EXCEPT !.prefix_to_replace = NotStr],
         [good EXCEPT !.prefix_to_replace = NotStr, !.folder_map = FALSE],
         [good EXCEPT !.include_re_pattern = NotStr]}

ArgChoices(cl) == WellTypedChoices(cl) \cup MalformedChoices(cl)

\* every argument of the call has the documented type
WellTyped(a) ==
    /\ a.s3_path # NotStr
    /\ a.base_dst_dir # NotStr
    /\ a.prefix_to_replace # NotStr
    /\ a.include_re_pattern # NotStr
    /\ a.exclude_re_pattern # NotStr

\* truth value of an optional string argument
Truthy(s) == s # None /\ s # <<>>

\* the pattern is anchored: a leading '^', a trailing '$' that is not escaped
AnchoredStart(pattern) == StartsWith(pattern, <<"^">>)
AnchoredEnd(pattern) ==
    /\ EndsWith(pattern, <<"$">>)
    /\ ~EndsWith(pattern, <<"\\", "$">>)

RECURSIVE ReTokens(_)
\* the pattern between its anchors, one token for each character it matches:
\* '.' matches any character, '\' followed by c and every other c match c
ReTokens(body) ==
    IF body = <<>> THEN <<>>
    ELSE IF Head(body) = "\\" /\ Len(body) >= 2
    THEN <<[any |-> FALSE, ch |-> body[2]]>> \o ReTokens(Drop(body, 2))
    ELSE <<[any |-> Head(body) = ".", ch |-> Head(body)]>> \o ReTokens(Tail(body))

\* re.compile(pattern).search(s) is not None, for the patterns built from
\* literal characters, '.', escaped characters and the anchors '^' and '$'
ReSearch(pattern, s) ==
    LET body == SubSeq(pattern, IF AnchoredStart(pattern) THEN 2 ELSE 1,
                                IF AnchoredEnd(pattern) THEN Len(pattern) - 1 ELSE Len(pattern))
        tokens == ReTokens(body)
    IN  \E k \in 0..(Len(s) - Len(tokens)) :
            /\ AnchoredStart(pattern) => k = 0
            /\ AnchoredEnd(pattern) => k + Len(tokens) = Len(s)
            /\ \A i \in 1..Len(tokens) : tokens[i].any \/ s[k + i] = tokens[i].ch

\* S3Download._filter_object_names, GoogleStorageDownload._filter_blob_names
FilterObjectNames(ks, include_re_pattern, exclude_re_pattern) ==
    LET inc == IF Truthy(include_re_pattern)
               THEN SelectSeq(ks, LAMBDA n : ReSearch(include_re_pattern, n))
               ELSE ks
    IN  IF Truthy(exclude_re_pattern)
        THEN SelectSeq(inc, LAMBDA n : ~ReSearch(exclude_re_pattern, n))
        ELSE inc

\* the parser of the client
ParseLocator(cl, loc) == IF cl = "s3" THEN S3PathParser(loc) ELSE ParseGsPath(loc)

\* list() goes on to resolve the container: S3Download.list tests
\* "s3_path is None", and the parser returns a dictionary for every string;
\* GoogleStorageDownload._list tests
\* "blob_prefix in (None, '') or bucket_name is None"
LocatorAccepted(cl, parsed) ==
    IF cl = "s3" THEN TRUE
    ELSE ~(parsed.object_name \in {None, <<>>} \/ parsed.bucket_name = None)

(* --------------------------- local file system ------------------------- *)
\* os.path.exists
PathExists(files, directories, path) ==
    LET q == RStripSlash(path)
    IN  q = <<>> \/ q \in directories \/ (q = path /\ path \in DOMAIN files)

\* the directories os.makedirs(path) leaves in place
MakeDirs(directories, path) ==
    directories \cup
        ({RStripSlash(SubSeq(path, 1, k)) :
            k \in {j \in 1..Len(path) : j = Len(path) \/ path[j + 1] = "/"}} \ {<<>>})

FsWrite(files, path, content) ==
    [q \in DOMAIN files \cup {path} |-> IF q = path THEN content ELSE files[q]]

FsRemove(files, path) == [q \in DOMAIN files \ {path} |-> files[q]]

\* os.rename(src, dst) of an existing file
FsRename(files, src, dst) == FsRemove(FsWrite(files, dst, files[src]), src)

\* S3Download._make_local_path, GoogleStorageDownload._make_local_path on a
\* POSIX host, up to the decision to create directories
MakeLocalPath(object_name, prefix_to_replace, base_dst_dir) ==
    LET filename == SplitLast(object_name)
        replaced == StrReplace(object_name, prefix_to_replace, <<>>)
        dst_path_tail == IF StartsWith(replaced, <<"/">>) THEN Drop(replaced, 1) ELSE replaced
        base == ExpandUser(NormPath(StandardizeDirPath(base_dst_dir)))
        dst_dir == Join(base, Dirname(dst_path_tail))
    IN  [dst_dir |-> dst_dir, dst_path |-> Join(dst_dir, filename)]

\* S3Download._make_local_path, GoogleStorageDownload._make_local_path on a
\* Windows host, up to the decision to create directories
MakeLocalPathWin(object_name, prefix_to_replace, base_dst_dir) ==
    LET filename == SplitLast(object_name)
        replaced == ToBackslash(StrReplace(object_name, prefix_to_replace, <<>>))
        dst_path_tail == IF StartsWith(replaced, <<Backslash>>)
                         THEN Drop(object_name, 2) ELSE replaced
        base == NtExpandUser(NtNormPath(StandardizeDirPathWin(base_dst_dir)))
        dst_dir == NtJoin(base, NtDirname(dst_path_tail))
    IN  [dst_dir |-> dst_dir, dst_path |-> NtJoin(dst_dir, filename)]

\* _make_local_path on the host
MakeLocalPathOn(host, object_name, prefix_to_replace, base_dst_dir) ==
    IF host = "win" THEN MakeLocalPathWin(object_name, prefix_to_replace, base_dst_dir)
    ELSE MakeLocalPath(object_name, prefix_to_replace, base_dst_dir)

\* a flat destination that keeps the folders of the object name
FlatPathKeepsFolders(object_name, base_dst_dir) ==
    Join(ExpandUser(NormPath(base_dst_dir)), object_name)

\* the flat destination of recursive_download (folder_map false)
FlatPath(object_name, base_dst_dir) ==
    Join(ExpandUser(NormPath(base_dst_dir)), SplitLast(object_name))

\* the temporary sibling path of GoogleStorageDownload._download
TemporaryPath(dst_file_path) == dst_file_path \o <<".", "0", "0", "0">>

\* the test with the overwrite flag inverted
SkipInverted(overwrite, exists) == overwrite /\ exists

\* the test without the overwrite flag
SkipWheneverExists(overwrite, exists) == exists

\* the test "not overwrite and os.path.exists(dst_path)" of _download
SkipExisting(overwrite, exists) == ~overwrite /\ exists

\* both clients write the temporary sibling path
WriteTargetTemporary(cl, dst_path) == TemporaryPath(dst_path)

\* both clients write the final path
WriteTargetFinal(cl, dst_path) == dst_path

\* the path download_file / download_to_filename writes
WriteTarget(cl, dst_path) == IF cl = "s3" THEN dst_path ELSE TemporaryPath(dst_path)

\* the errors a fetch raises before it writes, and after it began to write
EarlyErrors == {"NotFound", "AccessDenied"}
LateErrors == {"IOError", "Unknown"}

\* the except clauses without the final "except Exception"
HandledWithoutCatchAll(cl, exc) ==
    \/ exc = "IOError"
    \/ (cl = "s3" /\ exc \in {"NotFound", "AccessDenied"})
    \/ (cl = "gs" /\ exc = "NotFound")

\* the except clauses of _download: IOError, ClientError / NotFound, Exception
Handled(cl, exc) ==
    \/ exc = "IOError"
    \/ (cl = "s3" /\ exc \in {"NotFound", "AccessDenied"})
    \/ (cl = "gs" /\ exc = "NotFound")
    \/ exc \in {"NotFound", "AccessDenied", "IOError", "Unknown"}

VARIABLES
    parseIn, parseOut,   \* the locator parsers: argument and result
    client,              \* "s3" (S3Download) or "gs" (GoogleStorageDownload)
    numProc,             \* NUM_PROC of the client class
    conn,                \* self.conn / self.client is not None
    remote,              \* object names under the prefix in the remote container
    fs,                  \* local files: path -> [obj, full]
    dirs,                \* local directories
    bucket,              \* self._bucket / self.bucket: the cached handle
    made,                \* handles created on this instance so far
    request,             \* the last _get_bucket call made by the caller directly
    filterIn, filterOut, \* _filter_object_names: arguments and result
    mapIn, mapOut,       \* the mapping of one object: arguments and result
    image_set,           \* ValidateContent: the strategy, the CSV of URLs, the remote stores
    download_url_val,    \* ValidateContent.download_url_val
    download_url_inval,  \* ValidateContent.download_url_inval
    vrun,                \* ValidateContent: how far the validation has run
    vault,               \* VaultClient._client and the clients made so far
    calls,               \* results of the VaultClient.instance() calls so far
    pc,                  \* position of the caller in recursive_download
    args,                \* arguments of the call in progress
    keys,                \* result of list(): object names, or None
    download_args,       \* the task list handed to pool.map
    tasks,               \* per task: state and what happened to it
    nextTask,            \* head of the pool's task queue
    worker,              \* per pool thread: its task and its position in _download
    mapIdx,              \* index of the next key the mapping loop handles
    clog,                \* log records of the call that belong to no task
    phases,              \* steps of the call completed so far
    raised,              \* an exception left _download
    runs,                \* calls started on this instance
    prev                 \* summary of the previous call

fvars == <<filterIn, filterOut>>
lvars == <<mapIn, mapOut>>
vvars == <<image_set, download_url_val, download_url_inval, vrun>>
kvars == <<vault, calls>>
pvars == <<parseIn, parseOut, filterIn, filterOut, mapIn, mapOut, image_set, download_url_val,
           download_url_inval, vrun, vault, calls>>
cvars == <<client, numProc, conn, remote>>
bvars == <<bucket, made, request>>
mvars == <<client, numProc, conn, remote, fs, dirs, bucket, made, request, pc, args, keys, download_args,
           tasks, nextTask, worker, mapIdx, clog, phases, raised, runs, prev>>
vars == <<parseIn, parseOut, filterIn, filterOut, mapIn, mapOut, image_set, download_url_val,
          download_url_inval, vrun, vault, calls, client, numProc, conn, remote, fs, dirs, bucket, made, request, pc, args, keys,
          download_args, tasks, nextTask, worker, mapIdx, clog, phases, raised, runs, prev>>

\* no handle is cached (self._bucket / self.bucket is None)
NoBucket == [name |-> None, id |-> 0]
\* no _get_bucket call has been made by the caller directly
NoRequest == [name |-> None, ok |-> FALSE, cached |-> NoBucket]
\* no object has been mapped yet
NotMapped == [done |-> FALSE, key_prefix |-> None, dst_dir |-> None, dst_path |-> None]
\* no result of _filter_object_names yet
NotFiltered == [done |-> FALSE, keys |-> <<>>]
NoFile == [q \in {} |-> 0]
IdleWorker == [task |-> 0, pc |-> "idle"]
NoPrev == [valid |-> FALSE, args |-> NoArgs, listed |-> FALSE, allDone |-> FALSE,
           allBuilt |-> FALSE]
NewTask == [state |-> "Pending", picked |-> 0, fetches |-> 0, fsops |-> 0, log |-> {},
            faulted |-> FALSE, existed |-> "?"]

\* a client right after construction, in an empty destination directory
MachineInit ==
    /\ client \in {"s3", "gs"}
    /\ numProc \in 1..MaxProc
    /\ conn \in BOOLEAN
    /\ remote \in Remotes
    /\ fs = NoFile
    /\ dirs = {BaseDstDir}
    /\ bucket = NoBucket
    /\ made = 0
    /\ request = NoRequest
    /\ pc = "idle"
    /\ args = NoArgs
    /\ keys = NoKeys
    /\ download_args = <<>>
    /\ tasks = <<>>
    /\ nextTask = 1
    /\ worker = <<>>
    /\ mapIdx = 1
    /\ clog = {}
    /\ phases = {}
    /\ raised = FALSE
    /\ runs = 0
    /\ prev = NoPrev

\* recursive_download has not been called
CallAtRest ==
    /\ numProc = NUM_PROC
    /\ conn = TRUE
    /\ remote = <<>>
    /\ pc = "idle"
    /\ args = NoArgs
    /\ keys = NoKeys
    /\ download_args = <<>>
    /\ tasks = <<>>
    /\ nextTask = 1
    /\ worker = <<>>
    /\ mapIdx = 1
    /\ clog = {}
    /\ phases = {}
    /\ raised = FALSE
    /\ runs = 0
    /\ prev = NoPrev

\* recursive_download has not been called and there is no local file
AtRest == CallAtRest /\ fs = NoFile /\ dirs = {}

\* no object has been mapped directly
MapAtRest ==
    /\ mapIn = [host |-> "posix", object_name |-> <<>>, prefix_to_replace |-> None,
                object_prefix |-> <<>>, base_dst_dir |-> BaseDstDir]
    /\ mapOut = NotMapped

\* no image set has been validated
NoImageSet == [source |-> "l7", urls |-> <<>>, bands |-> {}, metadata |-> {},
               unlisted |-> [bands |-> {}, metadata |-> {}]]
NotValidated == [pc |-> "new", raised |-> "none", checked |-> <<>>, examined |-> <<>>]
ValidateAtRest ==
    /\ image_set = NoImageSet
    /\ download_url_val = <<>>
    /\ download_url_inval = <<>>
    /\ vrun = NotValidated

\* VaultClient.instance has not been called
NoVault == [client |-> 0, created |-> 0, authenticated |-> {}]
VaultAtRest == vault = NoVault /\ calls = <<>>

\* no handle has been resolved
BucketAtRest == bucket = NoBucket /\ made = 0 /\ request = NoRequest

\* _filter_object_names has not been called directly
FilterAtRest ==
    /\ filterIn = [keys |-> <<>>, include_re_pattern |-> None, exclude_re_pattern |-> None]
    /\ filterOut = NotFiltered

\* the locator parser has not been called
ParseAtRest ==
    /\ parseIn = LocatorOf(client, TRUE, <<"k">>, TRUE, <<"p", "/">>)
    /\ parseOut = Pending

Init ==
    /\ MachineInit
    /\ ParseAtRest
    /\ FilterAtRest
    /\ MapAtRest
    /\ ValidateAtRest
    /\ VaultAtRest

\* a locator for either client, not parsed yet: '<scheme>://c/p', 'c/p'
\* without the scheme marker, or the container alone without the separator
ParseInit ==
    /\ parseIn \in {LocatorOf(cl, m, c, TRUE, p) :
                       cl \in {"s3", "gs"}, m \in BOOLEAN, c \in ContainerNames,
                       p \in ObjectPrefixes}
                  \cup {LocatorOf(cl, m, c, FALSE, <<>>) :
                       cl \in {"s3", "gs"}, m \in BOOLEAN, c \in ContainerNames}
    /\ parseOut = Pending
    /\ client = parseIn.client
    /\ BucketAtRest
    /\ FilterAtRest
    /\ MapAtRest
    /\ ValidateAtRest
    /\ VaultAtRest
    /\ AtRest

(* ------------------------- recursive_download -------------------------- *)
\* the results of the string functions for the arguments the calls use,
\* computed once
ObjectNames == {Universe[k] : k \in 1..Len(Universe)}
Parsed == [cl \in {"s3", "gs"} |-> ParseLocator(cl, Locator(cl))]
StripPrefixes ==
    {c.prefix_to_replace : c \in {o \in OptionChoices : Truthy(o.prefix_to_replace)}}
        \cup {Parsed[cl].object_name : cl \in {"s3", "gs"}}
LocalPaths == [n \in ObjectNames, q \in StripPrefixes |-> MakeLocalPath(n, q, BaseDstDir)]
FlatPaths == [n \in ObjectNames |-> FlatPath(n, BaseDstDir)]

Terminal == {"SkippedExists", "Completed", "Failed"}

\* every call that can create a handle creates a new one
GetBucketAlwaysNew(cl, cached, bucket_name, ok, fresh) ==
    IF ok THEN [name |-> bucket_name, id |-> fresh]
    ELSE IF cl = "s3" THEN cached ELSE NoBucket

\* S3Download._get_bucket and GoogleStorageDownload._get_bucket: the cached
\* handle after the call; ok says whether creating a handle succeeds, fresh
\* is the identity of the handle object when one is created
GetBucket(cl, cached, bucket_name, ok, fresh) ==
    IF cl = "s3"
    THEN IF cached = NoBucket \/ cached.name # bucket_name
         THEN (IF ok THEN [name |-> bucket_name, id |-> fresh] ELSE cached)
         ELSE cached
    ELSE LET kept == IF cached # NoBucket /\ cached.name # bucket_name
                     THEN NoBucket ELSE cached
         IN  IF kept = NoBucket
             THEN (IF ok THEN [name |-> bucket_name, id |-> fresh] ELSE NoBucket)
             ELSE kept

\* what the caller can know of a call that returned
Summary ==
    [valid |-> TRUE, args |-> args, listed |-> keys # NoKeys,
     allDone |-> \A t \in 1..Len(tasks) : tasks[t].state \in {"Completed", "SkippedExists"},
     allBuilt |-> keys # NoKeys /\ Len(download_args) = Len(keys)]

\* S3Download.recursive_download: "type(base_dst_dir) != str or
\* (prefix_to_replace is not None and type(prefix_to_replace) != str)"; the
\* test logs an error and the call goes on
TypeCheckFails(a) ==
    a.base_dst_dir \in {None, NotStr} \/ a.prefix_to_replace = NotStr

\* list(): "type(s3_path) != str or (include_re_pattern is not None and
\* type(include_re_pattern) != str) or (exclude_re_pattern is not None and ...)"
ListTypeCheckFails(a) ==
    \/ a.s3_path \in {None, NotStr}
    \/ a.include_re_pattern = NotStr
    \/ a.exclude_re_pattern = NotStr

\* the mapping of an object raises: str.replace with a prefix that is not a
\* string (TypeError), _standardize_dir_path or os.path.normpath of a
\* directory that is not a string (AttributeError, TypeError)
MapRaises(a) ==
    \/ a.base_dst_dir = NotStr
    \/ (a.folder_map /\ a.prefix_to_replace = NotStr)

\* the caller invokes recursive_download(locator, base_dst_dir, a...); a later
\* call on the instance repeats the first one, with overwrite chosen anew
RecursiveDownload(a) ==
    /\ pc \in {"idle", "returned"}
    /\ runs < MaxRuns
    /\ runs > 0 => [a EXCEPT !.overwrite = args.overwrite] = args
    /\ pc' = "resolve"
    /\ args' = a
    /\ runs' = runs + 1
    /\ prev' = IF pc = "returned" THEN Summary ELSE prev
    /\ keys' = NoKeys
    /\ download_args' = <<>>
    /\ tasks' = <<>>
    /\ nextTask' = 1
    /\ mapIdx' = 1
    /\ clog' = IF client = "s3" /\ TypeCheckFails(a) THEN {"type-error"} ELSE {}
    /\ phases' = {}
    /\ UNCHANGED <<pvars, cvars, fs, dirs, bvars, worker, raised>>

\* list(): the locator is parsed and the container handle resolved
Resolve ==
    /\ pc = "resolve"
    /\ LET parsed == Parsed[client]
       IN  IF ListTypeCheckFails(args)
           THEN /\ clog' = clog \cup {"type-error"}
                /\ pc' = "check"
                /\ UNCHANGED <<bucket, made, phases>>
           ELSE IF ~LocatorAccepted(client, parsed)
           THEN /\ clog' = clog \cup {"locator-error"}
                /\ pc' = "check"
                /\ UNCHANGED <<bucket, made, phases>>
           ELSE IF ~conn
           THEN /\ pc' = "check"
                /\ UNCHANGED <<bucket, made, phases, clog>>
           ELSE \E ok \in BOOLEAN :
                  LET b == GetBucket(client, bucket, parsed.bucket_name, ok, made + 1)
                      tried == bucket = NoBucket \/ bucket.name # parsed.bucket_name
                  IN  /\ bucket' = b
                      /\ made' = IF b.id > made THEN b.id ELSE made
                      /\ clog' = IF tried /\ ~ok THEN clog \cup {"bucket-error"} ELSE clog
                      /\ IF b = NoBucket
                         THEN pc' = "check" /\ UNCHANGED phases
                         ELSE pc' = "listobjects" /\ phases' = phases \cup {"resolve"}
    /\ UNCHANGED <<pvars, cvars, fs, dirs, request, args, keys, download_args, tasks,
                   nextTask, worker, mapIdx, raised, runs, prev>>

\* a failed listing returns the objects it had listed so far
ListFailurePartial(listed) == IF Len(listed) = 0 THEN <<>> ELSE SubSeq(listed, 1, 1)

\* the except clauses of _list_objects and _list: "return None", whatever
\* the backend had listed
ListFailure(listed) == NoKeys

\* S3Download._list_objects, the listing of GoogleStorageDownload._list
ListObjects ==
    /\ pc = "listobjects"
    /\ \E ok \in BOOLEAN :
         IF ok
         THEN /\ keys' = SelectSeq(remote, LAMBDA n :
                                         StartsWith(n, Parsed[client].object_name))
              /\ pc' = "filter"
              /\ phases' = phases \cup {"list"}
              /\ UNCHANGED clog
         ELSE /\ keys' = ListFailure(remote)
              /\ pc' = "check"
              /\ clog' = clog \cup {"list-error"}
              /\ UNCHANGED phases
    /\ UNCHANGED <<pvars, cvars, fs, dirs, bvars, args, download_args, tasks, nextTask,
                   worker, mapIdx, raised, runs, prev>>

\* list(): the include and exclude patterns are applied
ListFilter ==
    /\ pc = "filter"
    /\ keys' = IF Truthy(args.include_re_pattern) \/ Truthy(args.exclude_re_pattern)
               THEN FilterObjectNames(keys, args.include_re_pattern, args.exclude_re_pattern)
               ELSE keys
    /\ pc' = "check"
    /\ phases' = phases \cup {"filter"}
    /\ UNCHANGED <<pvars, cvars, fs, dirs, bvars, args, download_args, tasks, nextTask,
                   worker, mapIdx, clog, raised, runs, prev>>

\* recursive_download: "if keys is None or len(keys) == 0: ... return"
CheckKeys ==
    /\ pc = "check"
    /\ IF keys = NoKeys \/ Len(keys) = 0
       THEN pc' = "returned" /\ clog' = clog \cup {"no-object"}
       ELSE pc' = "map" /\ clog' = clog \cup {"count"}
    /\ UNCHANGED <<pvars, cvars, fs, dirs, bvars, args, keys, download_args, tasks,
                   nextTask, worker, mapIdx, phases, raised, runs, prev>>

\* the override is used whenever it is not None
KeyPrefixUnlessNone(prefix_to_replace, object_prefix) ==
    IF prefix_to_replace # None THEN prefix_to_replace ELSE object_prefix

\* recursive_download: "prefix_to_replace if prefix_to_replace else
\* s3_parsed['object_name']"
KeyPrefixOf(prefix_to_replace, object_prefix) ==
    IF Truthy(prefix_to_replace) THEN prefix_to_replace ELSE object_prefix

\* the prefix the mapping loop strips
KeyPrefix == KeyPrefixOf(args.prefix_to_replace, Parsed[client].object_name)

\* a mapping that returns the path although os.makedirs raised
MakeDirsResultIgnoresFailure(ok, dst_path) == dst_path

\* _make_local_path after os.makedirs: the path, or None when makedirs raised
MakeDirsResult(ok, dst_path) == IF ok THEN dst_path ELSE None

\* one iteration of the loop that builds download_args
MapPath ==
    /\ pc = "map"
    /\ mapIdx <= Len(keys)
    /\ LET object_name == keys[mapIdx]
           m == LocalPaths[object_name, KeyPrefix]
           create == Dirname(m.dst_dir) # <<>> /\ ~PathExists(fs, dirs, m.dst_dir)
           dst_path == IF args.folder_map THEN m.dst_path ELSE FlatPaths[object_name]
           built == /\ download_args' = Append(download_args,
                          [src_key |-> object_name, dst_path |-> dst_path,
                           overwrite |-> args.overwrite])
                    /\ tasks' = Append(tasks, NewTask)
       IN  IF MapRaises(args)
           THEN /\ pc' = "raised"
                /\ UNCHANGED <<dirs, phases, clog, download_args, tasks>>
           ELSE IF args.folder_map /\ create
           THEN \E ok \in BOOLEAN :
                  /\ dirs' = IF ok THEN MakeDirs(dirs, m.dst_dir) ELSE dirs
                  /\ phases' = IF ok THEN phases \cup {"makedirs"} ELSE phases
                  /\ clog' = IF ok THEN clog ELSE clog \cup {"mkdir-error"}
                  /\ IF Truthy(MakeDirsResult(ok, dst_path))
                     THEN built ELSE UNCHANGED <<download_args, tasks>>
           ELSE /\ IF dst_path # <<>> THEN built ELSE UNCHANGED <<download_args, tasks>>
                /\ UNCHANGED <<dirs, phases, clog>>
    /\ MapRaises(args) \/ pc' = pc
    /\ mapIdx' = mapIdx + 1
    /\ UNCHANGED <<pvars, cvars, fs, bvars, args, keys, nextTask, worker, raised,
                   runs, prev>>

\* a pool with one thread more than NUM_PROC
PoolThreadsOversized == 1..(numProc + 1)

\* ThreadPool(NUM_PROC): the threads of the pool
PoolThreads == 1..numProc

\* pool = ThreadPool(NUM_PROC); pool.map(self._download, download_args)
PoolMap ==
    /\ pc = "map"
    /\ mapIdx > Len(keys)
    /\ pc' = "pool"
    /\ worker' = [w \in PoolThreads |-> IdleWorker]
    /\ phases' = phases \cup {"map"}
    /\ UNCHANGED <<pvars, cvars, fs, dirs, bvars, args, keys, download_args, tasks,
                   nextTask, mapIdx, clog, raised, runs, prev>>

\* pool.map returns when every task has been run, and raises what a task raised
Return ==
    /\ pc = "pool"
    /\ nextTask > Len(download_args)
    /\ \A w \in DOMAIN worker : worker[w].pc = "idle"
    /\ pc' = IF raised THEN "raised" ELSE "returned"
    /\ UNCHANGED <<pvars, cvars, fs, dirs, bvars, args, keys, download_args, tasks,
                   nextTask, worker, mapIdx, clog, phases, raised, runs, prev>>

(* ------------------------------ _download ------------------------------ *)
\* the pool runs tasks while the task list is still being built
PoolStartedEarly == pc \in {"map", "pool"}

\* pool.map is called after the loop that builds download_args
PoolStarted == pc = "pool"

\* a failed fetch is tried a second time
FailRetry(w, exc, injected) ==
    LET t == worker[w].task
    IN  /\ tasks' = [tasks EXCEPT ![t] =
                       [@ EXCEPT !.state = IF @ = "Fetching" /\ tasks[t].fetches < 2
                                           THEN "Pending" ELSE "Failed",
                                 !.fetches = IF tasks[t].fetches < 2 THEN @ + 1 ELSE @,
                                 !.log = @ \cup {"error"},
                                 !.faulted = @ \/ injected]]
        /\ worker' = [worker EXCEPT ![w] =
                       IF tasks[t].fetches < 2 THEN [task |-> t, pc |-> "open"]
                       ELSE IF client = "gs" THEN [task |-> t, pc |-> "cleanup"]
                       ELSE IdleWorker]
        /\ UNCHANGED raised

\* an exception exc leaves the fetch or the rename of the task of thread w;
\* injected says that the failure is the task's own (not caused by a sibling)
Fail(w, exc, injected) ==
    LET t == worker[w].task
    IN  /\ tasks' = [tasks EXCEPT ![t] =
                       [@ EXCEPT !.state = "Failed",
                                 !.log = IF Handled(client, exc) THEN @ \cup {"error"} ELSE @,
                                 !.faulted = @ \/ injected]]
        /\ worker' = [worker EXCEPT ![w] =
                       IF Handled(client, exc) /\ client = "gs"
                       THEN [task |-> t, pc |-> "cleanup"]
                       ELSE IdleWorker]
        /\ raised' = (raised \/ ~Handled(client, exc))

\* a pool thread takes the next task and tests whether to skip it; the
\* threads are interchangeable, the idle thread of least index takes the task
Examine(w) ==
    /\ PoolStarted
    /\ worker[w].pc = "idle"
    /\ \A v \in 1..(w - 1) : worker[v].pc # "idle"
    /\ nextTask <= Len(download_args)
    /\ LET t == nextTask
           a == download_args[t]
           exists == PathExists(fs, dirs, a.dst_path)
       IN  /\ nextTask' = t + 1
           /\ IF SkipExisting(a.overwrite, exists)
              THEN /\ tasks' = [tasks EXCEPT ![t] =
                                  [@ EXCEPT !.state = "SkippedExists", !.picked = @ + 1,
                                            !.log = @ \cup {"skip"}, !.existed = "yes"]]
                   /\ UNCHANGED worker
              ELSE /\ tasks' = [tasks EXCEPT ![t] =
                                  [@ EXCEPT !.state = "Fetching", !.picked = @ + 1,
                                            !.fetches = @ + 1,
                                            !.existed = IF exists THEN "yes" ELSE "no"]]
                   /\ worker' = [worker EXCEPT ![w] = [task |-> t, pc |-> "open"]]
    /\ UNCHANGED <<pvars, cvars, fs, dirs, bvars, pc, args, keys, download_args, mapIdx,
                   clog, phases, raised, runs, prev>>

\* download_file / download_to_filename: the request fails, or the local
\* file is opened for writing
FetchOpen(w) ==
    /\ worker[w].pc = "open"
    /\ LET t == worker[w].task
           a == download_args[t]
           target == WriteTarget(client, a.dst_path)
       IN  \/ \E exc \in EarlyErrors : Fail(w, exc, TRUE) /\ UNCHANGED fs
           \/ /\ fs' = FsWrite(fs, target, [obj |-> a.src_key, full |-> FALSE])
              /\ tasks' = [tasks EXCEPT ![t].fsops = @ + 1]
              /\ worker' = [worker EXCEPT ![w].pc = "write"]
              /\ UNCHANGED raised
    /\ UNCHANGED <<pvars, cvars, dirs, bvars, pc, args, keys, download_args, nextTask,
                   mapIdx, clog, phases, runs, prev>>

\* download_file / download_to_filename: the transfer ends, complete or not
FetchWrite(w) ==
    /\ worker[w].pc = "write"
    /\ LET t == worker[w].task
           a == download_args[t]
           target == WriteTarget(client, a.dst_path)
       IN  \/ \E exc \in LateErrors : Fail(w, exc, TRUE) /\ UNCHANGED fs
           \/ /\ fs' = IF target \in DOMAIN fs /\ fs[target].obj = a.src_key
                       THEN FsWrite(fs, target, [obj |-> a.src_key, full |-> TRUE])
                       ELSE fs
              /\ IF client = "s3"
                 THEN /\ tasks' = [tasks EXCEPT ![t].state = "Completed"]
                      /\ worker' = [worker EXCEPT ![w] = IdleWorker]
                 ELSE /\ worker' = [worker EXCEPT ![w].pc = "rename"]
                      /\ UNCHANGED tasks
              /\ UNCHANGED raised
    /\ UNCHANGED <<pvars, cvars, dirs, bvars, pc, args, keys, download_args, nextTask,
                   mapIdx, clog, phases, runs, prev>>

\* GoogleStorageDownload._download: os.rename(temporary_path, dst_file_path)
Rename(w) ==
    /\ worker[w].pc = "rename"
    /\ LET t == worker[w].task
           a == download_args[t]
           temporary_path == TemporaryPath(a.dst_path)
       IN  IF temporary_path \notin DOMAIN fs
           THEN Fail(w, "IOError", FALSE) /\ UNCHANGED fs
           ELSE \/ Fail(w, "IOError", TRUE) /\ UNCHANGED fs
                \/ /\ fs' = FsRename(fs, temporary_path, a.dst_path)
                   /\ tasks' = [tasks EXCEPT ![t] =
                                  [@ EXCEPT !.state = "Completed", !.fsops = @ + 1,
                                            !.log = @ \cup {"downloaded"}]]
                   /\ worker' = [worker EXCEPT ![w].pc = "cleanup"]
                   /\ UNCHANGED raised
    /\ UNCHANGED <<pvars, cvars, dirs, bvars, pc, args, keys, download_args, nextTask,
                   mapIdx, clog, phases, runs, prev>>

\* GoogleStorageDownload._download: "Collect the garbage"
Cleanup(w) ==
    /\ worker[w].pc = "cleanup"
    /\ LET t == worker[w].task
           temporary_path == TemporaryPath(download_args[t].dst_path)
       IN  IF temporary_path \in DOMAIN fs
           THEN \/ /\ fs' = FsRemove(fs, temporary_path)
                   /\ tasks' = [tasks EXCEPT ![t].fsops = @ + 1]
                \/ /\ tasks' = [tasks EXCEPT ![t].log = @ \cup {"remove-error"}]
                   /\ UNCHANGED fs
           ELSE UNCHANGED <<fs, tasks>>
    /\ worker' = [worker EXCEPT ![w] = IdleWorker]
    /\ UNCHANGED <<pvars, cvars, dirs, bvars, pc, args, keys, download_args, nextTask,
                   mapIdx, clog, phases, raised, runs, prev>>

Next ==
    \/ \E a \in ArgChoices(client) : RecursiveDownload(a)
    \/ Resolve
    \/ ListObjects
    \/ ListFilter
    \/ CheckKeys
    \/ MapPath
    \/ PoolMap
    \/ Return
    \/ \E w \in DOMAIN worker : Examine(w)
    \/ \E w \in DOMAIN worker : FetchOpen(w)
    \/ \E w \in DOMAIN worker : FetchWrite(w)
    \/ \E w \in DOMAIN worker : Rename(w)
    \/ \E w \in DOMAIN worker : Cleanup(w)

Spec == Init /\ [][Next]_vars

\* the steps of the thread that called recursive_download
CallStep ==
    Resolve \/ ListObjects \/ ListFilter \/ CheckKeys \/ MapPath \/ PoolMap \/ Return

\* the steps of pool thread w
ThreadStep(w) ==
    /\ w \in DOMAIN worker
    /\ Examine(w) \/ FetchOpen(w) \/ FetchWrite(w) \/ Rename(w) \/ Cleanup(w)

\* every thread that can take a step eventually takes one, and every backend
\* call returns
FairSpec == Spec /\ WF_vars(CallStep) /\ \A w \in 1..MaxProc : WF_vars(ThreadStep(w))

(* ------------------------ _filter_object_names ------------------------- *)
\* longest listing handed to the filter
MaxListing == 3

\* the object names of the listings handed to the filter
FilterNames == {<<"a", ".", "t">>, <<"a", ".", "o">>, <<"b", ".", "t">>}

\* the values of an optional pattern: None, the empty pattern, '\.t$', '^a',
\* 'a' and '.'
FilterPatterns ==
    {None, <<>>, <<"\\", ".", "t", "$">>, <<"^", "a">>, <<"a">>, <<".">>}

RECURSIVE Listings(_)
\* the listings of at most n objects
Listings(n) ==
    IF n = 0 THEN {<<>>}
    ELSE LET L == Listings(n - 1)
         IN  L \cup {Append(l, o) : l \in {x \in L : Len(x) = n - 1}, o \in FilterNames}

\* a listing and two optional patterns, not filtered yet
FilterInit ==
    /\ filterIn \in [keys : Listings(MaxListing), include_re_pattern : FilterPatterns,
                      exclude_re_pattern : FilterPatterns]
    /\ filterOut = NotFiltered
    /\ client \in {"s3", "gs"}
    /\ ParseAtRest
    /\ BucketAtRest
    /\ MapAtRest
    /\ ValidateAtRest
    /\ VaultAtRest
    /\ AtRest

\* S3Download._filter_object_names(keys, include_re_pattern, exclude_re_pattern)
FilterS3 ==
    /\ client = "s3"
    /\ ~filterOut.done
    /\ filterOut' = [done |-> TRUE,
                     keys |-> FilterObjectNames(filterIn.keys, filterIn.include_re_pattern,
                                                filterIn.exclude_re_pattern)]
    /\ UNCHANGED <<parseIn, parseOut, filterIn, lvars, vvars, kvars, mvars>>

\* GoogleStorageDownload._filter_blob_names(blobs, include_re_pattern, exclude_re_pattern)
FilterGs ==
    /\ client = "gs"
    /\ ~filterOut.done
    /\ filterOut' = [done |-> TRUE,
                     keys |-> FilterObjectNames(filterIn.keys, filterIn.include_re_pattern,
                                                filterIn.exclude_re_pattern)]
    /\ UNCHANGED <<parseIn, parseOut, filterIn, lvars, vvars, kvars, mvars>>

FilterNext == FilterS3 \/ FilterGs

FilterSpec == FilterInit /\ [][FilterNext]_vars

(* --------------------------- _make_local_path -------------------------- *)
\* longest object name handed to the mapping
MaxNameLen == 5

\* the object names handed to the mapping
MapNames == Words({"a", "/", "."}, MaxNameLen) \ {<<>>}

\* the literal prefixes of an object name
Prefixes(n) == {SubSeq(n, 1, k) : k \in 0..Len(n)}

\* the base destination directory on the host
BaseDstDirOn(host) == IF host = "win" THEN <<Backslash, "o">> ELSE BaseDstDir

\* os.path.normpath and os.path.dirname on the host
NormOn(host, p) == IF host = "win" THEN NtNormPath(p) ELSE NormPath(p)
DirnameOn(host, p) == IF host = "win" THEN NtDirname(p) ELSE Dirname(p)

\* the directories os.makedirs(path) passes through on the host, normalised
MakeDirsOn(host, path) ==
    LET made_dirs == MakeDirs({}, IF host = "win" THEN ToSlash(path) ELSE path)
    IN  {NormOn(host, d) : d \in made_dirs}

\* os.path.exists of a directory on the host: the root and the directories made
ExistsOn(host, directories, path) ==
    LET q == NormOn(host, path)
    IN  q \in directories \/ \A k \in 1..Len(q) : IsSep(q[k])

\* an object name, the prefix override of the caller (or None) and the
\* object prefix of the locator, both literal prefixes of the name; on a
\* Windows host no name has an empty segment, which ntpath reads as a UNC prefix
MapInit ==
    /\ \E h \in {"posix", "win"}, n \in MapNames :
          /\ h = "win" => ~ReSearch(<<"/", "/">>, n)
          /\ mapIn \in {[host |-> h, object_name |-> n, prefix_to_replace |-> o,
                          object_prefix |-> q, base_dst_dir |-> BaseDstDirOn(h)] :
                            o \in {None, <<>>}, q \in Prefixes(n)}
                       \cup {[host |-> h, object_name |-> n, prefix_to_replace |-> o,
                             object_prefix |-> <<>>, base_dst_dir |-> BaseDstDirOn(h)] :
                            o \in Prefixes(n)}
    /\ mapOut = NotMapped
    /\ client \in {"s3", "gs"}
    /\ fs = NoFile
    /\ dirs = {NormOn(mapIn.host, mapIn.base_dst_dir)}
    /\ ParseAtRest
    /\ BucketAtRest
    /\ FilterAtRest
    /\ ValidateAtRest
    /\ VaultAtRest
    /\ CallAtRest

\* the body of the loop of recursive_download for one object, folder_map
\* true: the prefix is chosen, _make_local_path maps the name and creates
\* the directory
MapObject ==
    /\ ~mapOut.done
    /\ LET host == mapIn.host
           key_prefix == KeyPrefixOf(mapIn.prefix_to_replace, mapIn.object_prefix)
           m == MakeLocalPathOn(host, mapIn.object_name, key_prefix, mapIn.base_dst_dir)
           create == DirnameOn(host, m.dst_dir) # <<>> /\ ~ExistsOn(host, dirs, m.dst_dir)
       IN  /\ mapOut' = [done |-> TRUE, key_prefix |-> key_prefix,
                         dst_dir |-> m.dst_dir, dst_path |-> m.dst_path]
           /\ dirs' = IF create THEN dirs \cup MakeDirsOn(host, m.dst_dir) ELSE dirs
    /\ UNCHANGED <<parseIn, parseOut, fvars, mapIn, vvars, kvars, cvars, fs, bvars, pc, args, keys,
                   download_args, tasks, nextTask, worker, mapIdx, clog, phases, raised,
                   runs, prev>>

\* S3Download.recursive_download with S3Download._make_local_path
MapS3 == client = "s3" /\ MapObject

\* GoogleStorageDownload.recursive_download with
\* GoogleStorageDownload._make_local_path
MapGs == client = "gs" /\ MapObject

MapNext == MapS3 \/ MapGs

MapSpec == MapInit /\ [][MapNext]_vars

(* --------------------------- ValidateContent --------------------------- *)
\* most rows of the CSV of download URLs
MaxUrls == 3

\* the S3 endpoints of the Landsat 8 scene pages, 35 characters each
L8Host == <<"h", "t", "t", "p", "s", ":", "/", "/", "s", "3", "-", "u", "s", "-", "w", "e", "s", "t", "-", "2", ".", "a", "m", "a", "z", "o", "n", "a", "w", "s", ".", "c", "o", "m", "/">>
L8HostWest1 == <<"h", "t", "t", "p", "s", ":", "/", "/", "s", "3", "-", "u", "s", "-", "w", "e", "s", "t", "-", "1", ".", "a", "m", "a", "z", "o", "n", "a", "w", "s", ".", "c", "o", "m", "/">>
\* the file name that ends a Landsat 8 download URL, 10 characters
L8Index == <<"i", "n", "d", "e", "x", ".", "h", "t", "m", "l">>

\* the Landsat 8 download URLs of the rows
L8Urls ==
    { L8Host \o <<"b", "/", "x">> \o L8Index,
      L8Host \o <<"b", "/", "y">> \o L8Index,
      L8HostWest1 \o <<"b", "/", "x">> \o L8Index }
\* the Landsat 7 and Sentinel 2 download URLs of the rows
GsUrls ==
    { <<"g", "s", ":", "/", "/", "k", "/", "a">>,
      <<"g", "s", ":", "/", "/", "k", "/", "b">>,
      <<"g", "s", ":", "/", "/", "k", "/", "c">> }

\* s[a:-b] of Python for a, b >= 0 with b > 0
Slice(s, a, b) == IF a + 1 > Len(s) - b THEN <<>> ELSE SubSeq(s, a + 1, Len(s) - b)

\* pandas Series.unique(): the distinct values in order of first appearance
RECURSIVE Unique(_)
Unique(rows) ==
    IF rows = <<>> THEN <<>>
    ELSE LET init == Unique(SubSeq(rows, 1, Len(rows) - 1))
             last == rows[Len(rows)]
         IN IF \E i \in 1..Len(init) : init[i] = last THEN init ELSE Append(init, last)

\* list.remove(x): the list without the first occurrence of x
RECURSIVE ListRemove(_, _)
ListRemove(l, x) ==
    IF l = <<>> THEN <<>>
    ELSE IF Head(l) = x THEN Tail(l) ELSE <<Head(l)>> \o ListRemove(Tail(l), x)

\* the base URL _validate_bands keeps of one download URL
L8BaseUrl(url) == Slice(url, 35, 10)
GsBaseUrl(url) == url
BaseUrl(source, url) == IF source = "l8" THEN L8BaseUrl(url) ELSE GsBaseUrl(url)

\* the image sets: a strategy, the rows of its CSV and what the remote store
\* holds and answers for each base URL
ImageSets ==
    UNION { LET universe == IF src = "l8" THEN L8Urls ELSE GsUrls
                bases == { BaseUrl(src, u) : u \in universe }
                atMostOne == { b \in SUBSET bases : Cardinality(b) <= 1 }
            IN UNION { [source : {src}, urls : [1..n -> universe], bands : SUBSET bases,
                        metadata : SUBSET bases,
                        unlisted : [bands : atMostOne, metadata : atMostOne]]
                       : n \in 0..MaxUrls }
            : src \in {"l8", "sentinel", "l7"} }

\* the loop of _validate_bands over the unique rows from row i on: every base
\* URL goes to one of the two lists, and a listing that fails raises
RECURSIVE BandsLoop(_, _, _, _, _)
BandsLoop(set, unique, i, val, inval) ==
    IF i > Len(unique) THEN [val |-> val, inval |-> inval, raised |-> "none"]
    ELSE LET baseurl == BaseUrl(set.source, unique[i])
         IN IF baseurl \in set.unlisted.bands
            THEN [val |-> val, inval |-> inval, raised |-> "bands"]
            ELSE IF baseurl \in set.bands
            THEN BandsLoop(set, unique, i + 1, Append(val, baseurl), inval)
            ELSE BandsLoop(set, unique, i + 1, val, Append(inval, baseurl))

\* the loop of _validate_metadata from index i on, over range(n) with n the
\* length of the valid list when the loop began: a base URL without its
\* metadata file is removed from the valid list and appended to the invalid one
RECURSIVE MetadataLoop(_, _, _, _, _, _)
MetadataLoop(set, i, n, val, inval, examined) ==
    IF i >= n
    THEN [val |-> val, inval |-> inval, examined |-> examined, raised |-> "none"]
    ELSE IF i + 1 > Len(val)
    THEN [val |-> val, inval |-> inval, examined |-> examined, raised |-> "IndexError"]
    ELSE LET baseurl == val[i + 1]
             seen == Append(examined, baseurl)
         IN IF baseurl \in set.unlisted.metadata
            THEN [val |-> val, inval |-> inval, examined |-> seen, raised |-> "metadata"]
            ELSE IF baseurl \in set.metadata
            THEN MetadataLoop(set, i + 1, n, val, inval, seen)
            ELSE MetadataLoop(set, i + 1, n, ListRemove(val, baseurl),
                              Append(inval, baseurl), seen)

\* a strategy object right after _download_image_set
ValidateInit ==
    /\ image_set \in ImageSets
    /\ client = IF image_set.source = "l8" THEN "s3" ELSE "gs"
    /\ ParseAtRest
    /\ BucketAtRest
    /\ FilterAtRest
    /\ MapAtRest
    /\ VaultAtRest
    /\ AtRest
    /\ download_url_val = <<>>
    /\ download_url_inval = <<>>
    /\ vrun = [NotValidated EXCEPT !.pc = "loaded"]

\* _validate_bands of the strategy of one source
ValidateBands(source) ==
    /\ vrun.pc = "loaded"
    /\ image_set.source = source
    /\ LET r == BandsLoop(image_set, Unique(image_set.urls), 1, download_url_val,
                          download_url_inval)
       IN /\ download_url_val' = r.val
          /\ download_url_inval' = r.inval
          /\ vrun' = [vrun EXCEPT !.pc = IF r.raised = "none" THEN "banded" ELSE "ended",
                                  !.raised = r.raised,
                                  !.checked = r.val]
    /\ UNCHANGED <<parseIn, parseOut, fvars, lvars, kvars, mvars, image_set>>

\* _validate_metadata of the strategy of one source
ValidateMetadata(source) ==
    /\ vrun.pc = "banded"
    /\ image_set.source = source
    /\ LET r == MetadataLoop(image_set, 0, Len(download_url_val), download_url_val,
                             download_url_inval, <<>>)
       IN /\ download_url_val' = r.val
          /\ download_url_inval' = r.inval
          /\ vrun' = [vrun EXCEPT !.pc = "ended", !.raised = r.raised,
                                  !.examined = r.examined]
    /\ UNCHANGED <<parseIn, parseOut, fvars, lvars, kvars, mvars, image_set>>

L8ValidateBands == ValidateBands("l8")
L8ValidateMetadata == ValidateMetadata("l8")
S2ValidateBands == ValidateBands("sentinel")
S2ValidateMetadata == ValidateMetadata("sentinel")
L7ValidateBands == ValidateBands("l7")
L7ValidateMetadata == ValidateMetadata("l7")

ValidateNext ==
    \/ L8ValidateBands
    \/ L8ValidateMetadata
    \/ S2ValidateBands
    \/ S2ValidateMetadata
    \/ L7ValidateBands
    \/ L7ValidateMetadata

ValidateSpec == ValidateInit /\ [][ValidateNext]_vars

(* ----------------------------- VaultClient ----------------------------- *)
\* most calls of VaultClient.instance() in one process
MaxCalls == 5

\* the values of VAULT_ROLE_ID and VAULT_SECRET_ID when they are set
VaultRoleId == <<"r">>
VaultSecretId == <<"s">>

\* an instance() that never finds the client it made before
CachedClientForgotten(v) == 0
\* cls._client as instance() finds it: 0 stands for None
CachedClient(v) == v.client

\* what one call did: the exception it raised (a SecretNotFoundException is
\* named by the variable it misses) or the client it returned
InstanceRaised(exc) == [raised |-> exc, client |-> 0]
InstanceReturned(c) == [raised |-> "none", client |-> c]

\* the process right after the import of config
VaultInit ==
    /\ client = "s3"
    /\ ParseAtRest
    /\ BucketAtRest
    /\ FilterAtRest
    /\ MapAtRest
    /\ ValidateAtRest
    /\ VaultAtRest
    /\ AtRest

\* one call of VaultClient.instance() with the environment and the Vault
\* server as they are at the call
Instance ==
    /\ Len(calls) < MaxCalls
    /\ \E role_id \in {None, VaultRoleId}, secret_id \in {None, VaultSecretId},
          auth_ok \in BOOLEAN :
          IF CachedClient(vault) = 0
          THEN IF role_id = None
               THEN /\ calls' = Append(calls, InstanceRaised("VAULT_ROLE_ID"))
                    /\ UNCHANGED vault
               ELSE IF secret_id = None
               THEN /\ calls' = Append(calls, InstanceRaised("VAULT_SECRET_ID"))
                    /\ UNCHANGED vault
               ELSE LET made_client == vault.created + 1
                    IN /\ vault' = [client |-> made_client,
                                    created |-> made_client,
                                    authenticated |->
                                        IF auth_ok
                                        THEN vault.authenticated \cup {made_client}
                                        ELSE vault.authenticated]
                       /\ calls' = Append(calls, IF auth_ok THEN InstanceReturned(made_client)
                                                 ELSE InstanceRaised("auth_approle"))
          ELSE /\ calls' = Append(calls, InstanceReturned(vault.client))
               /\ UNCHANGED vault
    /\ UNCHANGED <<parseIn, parseOut, fvars, lvars, vvars, mvars>>

VaultNext == Instance

VaultSpec == VaultInit /\ [][VaultNext]_vars

(* ----------------------------- _get_bucket ----------------------------- *)
\* most handles created on one client instance
MaxHandles == 3

\* a client right after construction
BucketInit ==
    /\ client \in {"s3", "gs"}
    /\ BucketAtRest
    /\ ParseAtRest
    /\ FilterAtRest
    /\ MapAtRest
    /\ ValidateAtRest
    /\ VaultAtRest
    /\ AtRest

\* the caller resolves the container bucket_name: self._get_bucket(bucket_name)
GetBucketCall(bucket_name, ok) ==
    LET b == GetBucket(client, bucket, bucket_name, ok, made + 1)
    IN  /\ b.id <= MaxHandles
        /\ bucket' = b
        /\ made' = IF b.id > made THEN b.id ELSE made
        /\ request' = [name |-> bucket_name, ok |-> ok, cached |-> bucket]
        /\ UNCHANGED <<pvars, cvars, fs, dirs, pc, args, keys, download_args, tasks,
                       nextTask, worker, mapIdx, clog, phases, raised, runs, prev>>

BucketNext == \E bucket_name \in ContainerNames, ok \in BOOLEAN : GetBucketCall(bucket_name, ok)

BucketSpec == BucketInit /\ [][BucketNext]_vars

(* ------------------------------- claims -------------------------------- *)
\* the task runs on no pool thread (it has not started, or it has returned)
Returned(t) == \A w \in DOMAIN worker : worker[w].task # t

\* C1: when a batch has ended, every task whose own fetch or rename did not
\* fail is Completed or SkippedExists, whatever happened to its siblings.
C1_FailureIsolation ==
    pc = "returned" =>
        \A t \in 1..Len(tasks) :
            ~tasks[t].faulted => tasks[t].state \in {"Completed", "SkippedExists"}

\* C1 with the default pool size: the same statement for NUM_PROC = 1
C1_FailureIsolationDefaultPool ==
    (pc = "returned" /\ numProc = NUM_PROC) =>
        \A t \in 1..Len(tasks) :
            ~tasks[t].faulted => tasks[t].state \in {"Completed", "SkippedExists"}

\* the destination of a task is the destination of no other task of the batch
Unshared(t) ==
    \A u \in 1..Len(download_args) :
        u # t => download_args[u].dst_path # download_args[t].dst_path

\* C2 as claimed: in the atomic-write client, when a failed task whose
\* destination did not exist beforehand has returned, neither the final path
\* nor the temporary sibling path exists.
C2_NothingLeftBehind ==
    client = "gs" =>
        \A t \in 1..Len(tasks) :
            (tasks[t].state = "Failed" /\ tasks[t].existed = "no" /\ Returned(t)) =>
                /\ download_args[t].dst_path \notin DOMAIN fs
                /\ TemporaryPath(download_args[t].dst_path) \notin DOMAIN fs

\* a step of the atomic-write client creates the file at a final path only by
\* the rename of a task whose fetch succeeded
C2_OnlyRenameCreates ==
    client = "gs" =>
        \A t \in 1..Len(download_args) :
            LET d == download_args[t].dst_path
            IN  (Len(download_args') = Len(download_args) /\ d \notin DOMAIN fs
                 /\ d \in DOMAIN fs') =>
                    \E w \in DOMAIN worker :
                        /\ worker[w].pc = "rename"
                        /\ worker'[w].pc = "cleanup"
                        /\ download_args[worker[w].task].dst_path = d
                        /\ tasks'[worker[w].task].state = "Completed"

\* the garbage collection that ends a task leaves no temporary file, unless
\* the removal failed and was logged
C2_CleanupRemoves ==
    client = "gs" =>
        \A w \in DOMAIN worker :
            (worker[w].pc = "cleanup" /\ worker'[w].pc = "idle") =>
                LET t == worker[w].task
                IN  \/ TemporaryPath(download_args[t].dst_path) \notin DOMAIN fs'
                    \/ "remove-error" \in tasks'[t].log

\* C2 (amended): a failed task of the atomic-write client never creates the
\* final path, which comes into existence only through the rename that follows
\* a successful fetch; when the task returns it has removed the temporary
\* sibling unless the removal itself failed and was logged.  For a task that
\* shares its destination with no sibling, after it returned the final path
\* does not exist and the temporary path exists only after such a failed removal.
C2_AtomicWrite ==
    /\ [][C2_OnlyRenameCreates /\ C2_CleanupRemoves]_vars
    /\ [](client = "gs" =>
            \A t \in 1..Len(tasks) :
                (tasks[t].state = "Failed" /\ tasks[t].existed = "no"
                 /\ Returned(t) /\ Unshared(t)) =>
                    /\ download_args[t].dst_path \notin DOMAIN fs
                    /\ \/ TemporaryPath(download_args[t].dst_path) \notin DOMAIN fs
                       \/ "remove-error" \in tasks[t].log)

\* a fetch of the atomic-write client failed after it wrote, the task has
\* returned and neither path exists
C2_Witness ==
    /\ client = "gs"
    /\ \E t \in 1..Len(tasks) :
         /\ tasks[t].state = "Failed" /\ tasks[t].existed = "no" /\ Returned(t)
         /\ tasks[t].fsops >= 2
         /\ download_args[t].dst_path \notin DOMAIN fs
         /\ TemporaryPath(download_args[t].dst_path) \notin DOMAIN fs

\* C3: a task with overwrite false whose destination exists when the thread
\* examines it is SkippedExists: it is never fetched, it changes nothing in the
\* local file system, and its only log record is the skip record.
C3_SkipExisting ==
    \A t \in 1..Len(tasks) :
        (~download_args[t].overwrite /\ tasks[t].existed = "yes") =>
            /\ tasks[t].state = "SkippedExists"
            /\ tasks[t].fetches = 0
            /\ tasks[t].fsops = 0
            /\ tasks[t].log = {"skip"}
            /\ Returned(t)

\* a task was skipped because its destination file exists
C3_Witness ==
    \E t \in 1..Len(tasks) :
        /\ tasks[t].state = "SkippedExists"
        /\ download_args[t].dst_path \in DOMAIN fs
        /\ ~download_args[t].overwrite

\* the call in progress repeats the previous call, both with overwrite false
Rerun == runs >= 2 /\ prev.valid /\ prev.args = args /\ ~args.overwrite

\* the call in progress fetches nothing and writes nothing
NoFetchNoWrite ==
    /\ "makedirs" \notin phases
    /\ \A t \in 1..Len(tasks) : tasks[t].fetches = 0 /\ tasks[t].fsops = 0
    /\ pc = "returned" => \A t \in 1..Len(tasks) : tasks[t].state = "SkippedExists"

\* C4 as claimed: when a call with overwrite false listed the prefix and ended
\* with every task Completed or SkippedExists, a second call with the same
\* arguments fetches nothing, writes nothing and skips every task.
C4_IdempotentAsClaimed == (Rerun /\ prev.listed /\ prev.allDone) => NoFetchNoWrite

\* C4 (amended): when a call with overwrite false built a task for every
\* listed object that passes the filters and ended with every task Completed
\* or SkippedExists, a second call with the same arguments fetches nothing,
\* writes nothing and skips every task.
C4_Idempotent == (Rerun /\ prev.allBuilt /\ prev.allDone) => NoFetchNoWrite

\* a second call has skipped every one of its tasks
C4_Witness ==
    /\ Rerun /\ prev.allBuilt /\ prev.allDone
    /\ pc = "returned"
    /\ Len(tasks) >= 1
    /\ \A t \in 1..Len(tasks) : tasks[t].state = "SkippedExists"

\* the tasks built for the object name n
TasksOf(n) == {t \in 1..Len(download_args) : download_args[t].src_key = n}

\* C5: a call with overwrite true fetches every object that passed the filters
\* and received a path exactly once, whether or not its destination exists,
\* and skips none.
C5_OverwriteFetchesAll ==
    (pc = "returned" /\ args.overwrite /\ "map" \in phases) =>
        /\ \A t \in 1..Len(tasks) :
               tasks[t].fetches = 1 /\ tasks[t].state \in {"Completed", "Failed"}
        /\ \A k \in 1..Len(keys) :
               \/ Cardinality(TasksOf(keys[k])) = 1
               \/ (Cardinality(TasksOf(keys[k])) = 0 /\ "mkdir-error" \in clog)

\* a call with overwrite true has fetched an object whose destination existed
C5_Witness ==
    /\ pc = "returned" /\ args.overwrite
    /\ \E t \in 1..Len(tasks) : tasks[t].existed = "yes" /\ tasks[t].fetches = 1

\* the state changes of a task
Lifecycle ==
    {<<"Pending", "SkippedExists">>, <<"Pending", "Fetching">>,
     <<"Fetching", "Completed">>, <<"Fetching", "Failed">>}

\* one step keeps every task on its life cycle
C6_Step ==
    Len(tasks') = Len(tasks) =>
        \A t \in 1..Len(tasks) :
            /\ tasks'[t].state # tasks[t].state =>
                   <<tasks[t].state, tasks'[t].state>> \in Lifecycle
            /\ tasks[t].state \in Terminal => tasks'[t].fetches = tasks[t].fetches

\* C6: every task is taken by exactly one thread, changes state only along
\* Pending -> SkippedExists or Pending -> Fetching -> Completed | Failed, never
\* leaves a terminal state, and is fetched at most once.
C6_TaskLifecycle ==
    /\ [][C6_Step]_vars
    /\ [](\A t \in 1..Len(tasks) :
            /\ tasks[t].fetches <= 1
            /\ tasks[t].picked = (IF tasks[t].state = "Pending" THEN 0 ELSE 1)
            /\ Cardinality({w \in DOMAIN worker : worker[w].task = t}) <= 1)
    /\ [](pc = "returned" => \A t \in 1..Len(tasks) : tasks[t].picked = 1)

\* a batch has ended with a skipped, a completed or a failed task
C6_Witness ==
    /\ pc = "returned"
    /\ Len(tasks) >= 2
    /\ \E t \in 1..Len(tasks) : tasks[t].state = "Failed"
    /\ \E t \in 1..Len(tasks) : tasks[t].state \in {"Completed", "SkippedExists"}

\* C7: under fair scheduling a call of recursive_download with arguments of
\* the documented types returns to its caller and raises nothing, whatever
\* fetches and directory creations fail; when it has returned every task of
\* the batch is terminal.
C7_AlwaysReturns ==
    /\ [](WellTyped(args) => pc # "raised")
    /\ (WellTyped(args) /\ pc \notin {"idle", "returned"}) ~> (pc = "returned")
    /\ [](pc = "returned" =>
            \A t \in 1..Len(tasks) : tasks[t].state \in Terminal /\ Returned(t))

\* a call returned although a directory creation and a fetch failed
C7_Witness ==
    /\ pc = "returned"
    /\ "mkdir-error" \in clog
    /\ \E t \in 1..Len(tasks) : tasks[t].state = "Failed"

\* a task has been taken by a pool thread
Started(t) == tasks[t].state # "Pending"

\* C8: no task is examined or fetched before the container is resolved, the
\* prefix listed and filtered and every listed object mapped; the task list
\* does not change while the pool runs.
C8_ListingBeforeFetch ==
    /\ []((\/ \E t \in 1..Len(tasks) : Started(t)
           \/ \E w \in DOMAIN worker : worker[w].pc # "idle") =>
            /\ pc \in {"pool", "returned"}
            /\ {"resolve", "list", "filter", "map"} \subseteq phases
            /\ mapIdx > Len(keys))
    /\ [][(\E t \in 1..Len(tasks) : Started(t) /\ ~Returned(t)) =>
            download_args' = download_args]_vars

\* a fetch is in flight for a batch of two tasks
C8_Witness ==
    /\ pc = "pool"
    /\ Len(download_args) >= 2
    /\ \E t \in 1..Len(tasks) : tasks[t].state = "Fetching"

\* the tasks whose fetch is in flight
Fetching == {t \in 1..Len(tasks) : tasks[t].state = "Fetching"}

\* C9: at most NUM_PROC tasks are Fetching at any moment; with the default
\* NUM_PROC of 1 no two fetches are in flight together.
C9_PoolBound ==
    /\ Cardinality(Fetching) <= numProc
    /\ numProc = NUM_PROC => Cardinality(Fetching) <= 1

\* two fetches are in flight in a pool of two
C9_Witness == numProc = 2 /\ Cardinality(Fetching) = 2

\* one fetch is in flight in a pool of one while another task waits
C9_WitnessDefault ==
    /\ numProc = NUM_PROC
    /\ Cardinality(Fetching) = 1
    /\ nextTask <= Len(download_args)

ParseS3 ==
    /\ parseOut = Pending
    /\ parseIn.client = "s3"
    /\ parseOut' = S3PathParser(parseIn.locator)
    /\ UNCHANGED <<parseIn, fvars, lvars, vvars, kvars, mvars>>

ParseGs ==
    /\ parseOut = Pending
    /\ parseIn.client = "gs"
    /\ parseOut' = ParseGsPath(parseIn.locator)
    /\ UNCHANGED <<parseIn, fvars, lvars, vvars, kvars, mvars>>

ParseNext == ParseS3 \/ ParseGs

ParseSpec == ParseInit /\ [][ParseNext]_vars

\* C10: parsing '<scheme>://c/p' yields container = c and prefix = p exactly,
\* in both clients, whatever segments p contains.
C10_ParseExact ==
    (parseOut # Pending /\ parseIn.marker /\ parseIn.slash) =>
        /\ parseOut.bucket_name = parseIn.container
        /\ parseOut.object_name = parseIn.prefix

\* C11: a locator that names only a container, '<scheme>://c' or
\* '<scheme>://c/', parses to that container with the empty prefix, and list
\* accepts it and goes on to a root listing.
C11_ContainerOnly ==
    (parseOut # Pending /\ parseIn.marker /\ parseIn.prefix = <<>>) =>
        /\ parseOut.bucket_name = parseIn.container
        /\ parseOut.object_name = <<>>
        /\ LocatorAccepted(parseIn.client, parseOut)

\* C12: a locator without the scheme marker is accepted and parsed as
\* '<container>/<prefix>' in both clients.
C12_NoSchemeMarker ==
    (parseOut # Pending /\ ~parseIn.marker /\ parseIn.slash) =>
        /\ parseOut.bucket_name = parseIn.container
        /\ parseOut.object_name = parseIn.prefix
        /\ LocatorAccepted(parseIn.client, parseOut)

\* C13: a call with a malformed argument (one that is not a string) ends
\* before any container resolution, listing or fetch is attempted, creates no
\* directory and no file, and has logged the error when it ends.
C13_MalformedAborts ==
    (runs > 0 /\ ~WellTyped(args)) =>
        /\ phases = {}
        /\ clog \subseteq {"type-error", "no-object"}
        /\ tasks = <<>>
        /\ fs = NoFile /\ dirs = {BaseDstDir}
        /\ pc \in {"returned", "raised"} => "type-error" \in clog

\* the listing of the call in progress failed
ListingFailed == "resolve" \in phases /\ "list" \notin phases /\ pc \in {"check", "returned"}

\* C14: when the listing fails, list returns None (never a partial list) and
\* has logged the failure, and recursive_download builds no task, creates no
\* directory, fetches nothing and writes nothing.
C14_ListingFailure ==
    /\ [](ListingFailed =>
            /\ keys = NoKeys
            /\ "list-error" \in clog
            /\ download_args = <<>> /\ tasks = <<>>
            /\ "makedirs" \notin phases)
    /\ [][ListingFailed => (dirs' = dirs /\ fs' = fs)]_vars

\* a call has returned after the listing of a prefix that holds objects failed
C14_Witness == ListingFailed /\ pc = "returned" /\ remote # <<>>

\* C15: after every container resolution, a request for the name of the
\* cached handle has left the cached handle object in place, and a successful
\* request for another name has replaced it by a new handle of that name.
C15_HandleCache ==
    request # NoRequest =>
        /\ (request.cached # NoBucket /\ request.cached.name = request.name) =>
               bucket = request.cached
        /\ ((request.cached = NoBucket \/ request.cached.name # request.name)
            /\ request.ok) =>
               /\ bucket.name = request.name
               /\ bucket.id > request.cached.id

\* a handle that replaced another one was requested again and kept
C15_Witness ==
    /\ request.cached # NoBucket
    /\ request.cached.name = request.name
    /\ bucket = request.cached
    /\ made >= 2

\* the listing ks without the names the pattern I does not match and without
\* the names the pattern E matches, a pattern that is None left aside
Kept(ks, I, E) ==
    SelectSeq(ks, LAMBDA n : /\ (I # None => ReSearch(I, n))
                             /\ (E # None => ~ReSearch(E, n)))

\* C16: the filter returns, in the original order, exactly the objects whose
\* name the include pattern matches somewhere (when one is given) and the
\* exclude pattern matches nowhere (when one is given).
C16_FilterExact ==
    filterOut.done =>
        filterOut.keys = Kept(filterIn.keys, filterIn.include_re_pattern,
                              filterIn.exclude_re_pattern)

\* C16 for patterns that are not empty: the same statement when no pattern
\* is the empty string
C16_FilterExactNonEmpty ==
    (filterOut.done /\ filterIn.include_re_pattern # <<>>
     /\ filterIn.exclude_re_pattern # <<>>) =>
        filterOut.keys = Kept(filterIn.keys, filterIn.include_re_pattern,
                              filterIn.exclude_re_pattern)

(* --------------------------- C17: mapped path --------------------------- *)
\* the path the object name n maps to under base when the literal prefix p
\* and one leading separator are taken off its front
StrippedOnce(n, p) ==
    LET rest == Drop(n, Len(p))
    IN  IF rest # <<>> /\ rest[1] = "/" THEN Tail(rest) ELSE rest
JoinedUnderBase(host, n, p, base) ==
    IF host = "win" THEN NtJoin(base, ToBackslash(StrippedOnce(n, p)))
    ELSE Join(base, StrippedOnce(n, p))

\* C17: for every object name and every prefix that is a literal prefix of
\* it, the mapping with the folder structure preserved returns the base
\* directory joined with the name without that leading prefix and without one
\* leading separator, on POSIX and on Windows hosts (paths compared after
\* normalisation)
C17_MappedPath ==
    mapOut.done =>
        NormOn(mapIn.host, mapOut.dst_path)
            = NormOn(mapIn.host, JoinedUnderBase(mapIn.host, mapIn.object_name,
                                                 mapOut.key_prefix, mapIn.base_dst_dir))

(* ------------------------ C18: destination tree ------------------------- *)
\* the normalised path lies in the tree of the normalised base directory
Under(host, base, path) ==
    LET b == NormOn(host, base)
        q == NormOn(host, path)
        sep == IF host = "win" THEN Backslash ELSE "/"
    IN  q = b \/ StartsWith(q, b \o <<sep>>)

\* C18: the path returned by the mapping with the folder structure preserved,
\* and every directory it creates, lies under the base destination directory
C18_UnderBase ==
    mapOut.done =>
        /\ Under(mapIn.host, mapIn.base_dst_dir, mapOut.dst_path)
        /\ \A d \in dirs : Under(mapIn.host, mapIn.base_dst_dir, d)

(* -------------------------- C20: stripped prefix ------------------------ *)
\* C20: the prefix stripped from an object name is the prefix_to_replace of
\* the caller whenever the caller supplies a string, and the object prefix
\* parsed from the locator exactly when the caller supplies none
C20_StrippedPrefix ==
    mapOut.done =>
        mapOut.key_prefix = IF mapIn.prefix_to_replace # None
                            THEN mapIn.prefix_to_replace ELSE mapIn.object_prefix

(* --------------------------- C19: flat mapping -------------------------- *)
\* the part of the object name after its last separator
LastSegment(n) ==
    LET cut == CHOOSE k \in 0..Len(n) :
                   (k = 0 \/ n[k] = "/") /\ \A j \in (k + 1)..Len(n) : n[j] # "/"
    IN  SubSeq(n, cut + 1, Len(n))

\* C19: with folder_map false every object that passed the filters is mapped
\* to the base directory joined with the last segment of its name, no
\* directory is created, and two objects with the same last segment receive
\* the same destination path
C19_FlatMapping ==
    (pc # "idle" /\ ~args.folder_map) =>
        /\ \A t \in 1..Len(download_args) :
               download_args[t].dst_path
                   = args.base_dst_dir \o <<"/">> \o LastSegment(download_args[t].src_key)
        /\ \A t, u \in 1..Len(download_args) :
               LastSegment(download_args[t].src_key) = LastSegment(download_args[u].src_key)
                   => download_args[t].dst_path = download_args[u].dst_path
        /\ "map" \in phases =>
               \A k \in 1..Len(keys) : Cardinality(TasksOf(keys[k])) = 1
        /\ \A d \in dirs : ~StartsWith(d, BaseDstDir \o <<"/">>)
        /\ "makedirs" \notin phases

\* a call with folder_map false has returned with two objects of different
\* folders mapped to one destination path
C19_Witness ==
    /\ pc = "returned" /\ ~args.folder_map
    /\ \E t, u \in 1..Len(download_args) :
           /\ download_args[t].src_key # download_args[u].src_key
           /\ Dirname(download_args[t].src_key) # Dirname(download_args[u].src_key)
           /\ download_args[t].dst_path = download_args[u].dst_path

(* --------------------- C21: directory creation fails -------------------- *)
\* one object of the listing is mapped with the folder structure preserved
MappingStep == pc = "map" /\ pc' = "map" /\ mapIdx' = mapIdx + 1 /\ args.folder_map

\* C21: when the directories of one object cannot be created the mapping
\* logs an error and no task is built for that object; a task is built for
\* an object only when its directory exists afterwards and nothing was
\* logged, always when the directory existed before; the other objects of the
\* batch still receive their tasks, and every task built has been run when
\* the call returns
C21_DirectoryFailure ==
    /\ [][MappingStep =>
            LET n == keys[mapIdx]
                m == LocalPaths[n, KeyPrefix]
            IN  \/ /\ download_args' = Append(download_args,
                          [src_key |-> n, dst_path |-> m.dst_path,
                           overwrite |-> args.overwrite])
                   /\ Len(tasks') = Len(tasks) + 1
                   /\ clog' = clog
                   /\ PathExists(fs', dirs', m.dst_dir)
                \/ /\ download_args' = download_args
                   /\ tasks' = tasks
                   /\ "mkdir-error" \in clog'
                   /\ ~PathExists(fs, dirs, m.dst_dir)
                   /\ dirs' = dirs]_vars
    /\ []((pc = "returned" /\ "map" \in phases) =>
            /\ \A t \in 1..Len(tasks) : tasks[t].state \in Terminal
            /\ \A k \in 1..Len(keys) : Cardinality(TasksOf(keys[k])) <= 1)

\* a call returned in which the directory of one object could not be created
\* and the other object was fetched
C21_Witness ==
    /\ pc = "returned" /\ args.folder_map
    /\ "mkdir-error" \in clog
    /\ Len(keys) = 2 /\ Len(tasks) = 1
    /\ tasks[1].state = "Completed"
    /\ download_args[1].src_key = keys[2]

(* ------------------------ C22: every error is logged -------------------- *)
\* the error records of a call that belong to no task
ErrorRecords == {"type-error", "locator-error", "bucket-error", "list-error", "mkdir-error"}

\* the call has returned without a listing
EndedWithoutListing == pc = "returned" /\ "list" \notin phases

\* what C22 requires of a call that had a connection or client
LoggedWhenConnected ==
    /\ (EndedWithoutListing /\ conn) => clog \cap ErrorRecords # {}
    /\ (pc = "returned" /\ "map" \in phases /\ Len(download_args) < Len(keys))
           => "mkdir-error" \in clog
    /\ \A t \in 1..Len(tasks) : tasks[t].state = "Failed" => "error" \in tasks[t].log

\* C22: a call that returns without a listing (no connection or client, the
\* container not resolved, the listing failed), an object that receives no
\* task and a task that fails each leave an error record in the log of that
\* call
C22_EveryErrorLogged ==
    /\ EndedWithoutListing => clog \cap ErrorRecords # {}
    /\ LoggedWhenConnected

(* ------------------- C23: the handle names the container ---------------- *)
\* C23: after the container of a locator has been resolved, a handle that is
\* cached (list and download go on to the backend only then) names that
\* container, also when another container was cached before and also when
\* the resolution failed
C23_HandleNamesContainer ==
    (request # NoRequest /\ bucket # NoBucket) => bucket.name = request.name

\* the handle is not reassigned while the pool runs the batch
C23_HandleFixedInBatch == [][pc = "pool" => bucket' = bucket]_vars

(* ------------------------- claims on validation ------------------------ *)
\* _validate_metadata has ended, by returning or by raising
MetadataEnded == vrun.pc = "ended" /\ vrun.raised # "bands"
InList(l, x) == \E i \in 1..Len(l) : l[i] = x
UniqueBaseUrls ==
    LET unique == Unique(image_set.urls)
    IN [i \in 1..Len(unique) |-> BaseUrl(image_set.source, unique[i])]

\* Once _validate_bands and then _validate_metadata have run, the two lists
\* together have one entry per unique download URL.
EntryPerUrl ==
    MetadataEnded =>
        Len(download_url_val) + Len(download_url_inval) = Len(Unique(image_set.urls))

\* Once both have run, no entry is in both lists and every unique download
\* URL has its entry in one of them.
InExactlyOneList ==
    MetadataEnded =>
        \A i \in 1..Len(UniqueBaseUrls) :
            InList(download_url_val, UniqueBaseUrls[i])
                # InList(download_url_inval, UniqueBaseUrls[i])

\* C24: after _validate_bands followed by _validate_metadata on any image
\* list, every unique download URL is in exactly one of download_url_val and
\* download_url_inval, and the two lists together have as many entries as there
\* are unique URLs.
C24_Partitioned == InExactlyOneList /\ EntryPerUrl

\* The same for the image lists whose download URLs all keep different base URLs.
C24_PartitionedDistinct ==
    (\A i, j \in 1..Len(UniqueBaseUrls) : UniqueBaseUrls[i] = UniqueBaseUrls[j] => i = j)
        => InExactlyOneList

\* C28: when no listing fails, _validate_metadata examines every URL of the
\* valid list once and returns; the valid list then holds the URLs with the
\* bands and the metadata file, and every URL without it is in the invalid list.
C28_MetadataComplete ==
    (MetadataEnded /\ image_set.unlisted.metadata = {}) =>
        /\ vrun.raised = "none"
        /\ vrun.examined = vrun.checked
        /\ download_url_val = SelectSeq(vrun.checked, LAMBDA b : b \in image_set.metadata)
        /\ \A i \in 1..Len(vrun.checked) :
               vrun.checked[i] \notin image_set.metadata
                   => InList(download_url_inval, vrun.checked[i])

\* When every URL of the valid list has its metadata file, _validate_metadata
\* examines each once, returns and leaves both lists as they were.
C28_NothingMissing ==
    (MetadataEnded /\ image_set.unlisted.metadata = {}
       /\ \A i \in 1..Len(vrun.checked) : vrun.checked[i] \in image_set.metadata) =>
        /\ vrun.raised = "none"
        /\ vrun.examined = vrun.checked
        /\ download_url_val = vrun.checked

(* ------------------------ claims on VaultClient ------------------------ *)
\* C25: after any sequence of VaultClient.instance() calls, every call that
\* returned yielded the same client object, and at most one client was ever
\* created and at most one authenticated.
C25_Singleton ==
    /\ \A i, j \in 1..Len(calls) :
           (calls[i].raised = "none" /\ calls[j].raised = "none")
               => calls[i].client = calls[j].client
    /\ \A i \in 1..Len(calls) : calls[i].raised = "none" => calls[i].client = vault.client
    /\ vault.created <= 1
    /\ Cardinality(vault.authenticated) <= 1

\* two calls have returned, after a call that raised for a missing variable
C25_Witness ==
    /\ Len(calls) >= 3
    /\ calls[1].raised = "VAULT_SECRET_ID"
    /\ calls[2].raised = "none"
    /\ calls[3].raised = "none"
    /\ vault.created = 1
    /\ vault.authenticated = {1}

(* ---------------------- claims on distinct objects --------------------- *)
\* the names the mapping could be handed next to the one it was handed: they
\* differ from it and begin with the same prefix
OtherNames ==
    {n \in MapNames :
        /\ n # mapIn.object_name
        /\ StartsWith(n, mapOut.key_prefix)
        /\ mapIn.host = "win" => ~ReSearch(<<"/", "/">>, n)}

\* C26: with the folder structure kept and the prefix and the base directory
\* fixed, two distinct object names that both begin with the prefix are never
\* mapped to the same local path.
C26_DistinctPaths ==
    (mapOut.done /\ Truthy(mapOut.key_prefix)
       /\ StartsWith(mapIn.object_name, mapOut.key_prefix)) =>
        \A n \in OtherNames :
            MakeLocalPathOn(mapIn.host, n, mapOut.key_prefix, mapIn.base_dst_dir).dst_path
                # mapOut.dst_path

\* The same for names in which the prefix occurs once and that have no empty
\* segment, no '.' segment and no leading or trailing separator after the
\* prefix: the rest of the name is then the path under the base directory.
PlainName(n, prefix) ==
    LET rest == SubSeq(n, Len(prefix) + 1, Len(n))
    IN /\ StartsWith(n, prefix)
       /\ StrReplace(n, prefix, <<>>) = rest
       /\ rest # <<>>
       /\ ~StartsWith(rest, <<"/">>)
       /\ NormPath(rest) = rest
C26_DistinctPlainPaths ==
    (mapOut.done /\ Truthy(mapOut.key_prefix) /\ mapIn.host = "posix"
       /\ PlainName(mapIn.object_name, mapOut.key_prefix)) =>
        \A n \in OtherNames :
            PlainName(n, mapOut.key_prefix) =>
                MakeLocalPathOn(mapIn.host, n, mapOut.key_prefix, mapIn.base_dst_dir).dst_path
                    # mapOut.dst_path

(* ---------------------- claims on the direct write --------------------- *)
\* thread w ends the fetch of its task with a failure after the file was opened
FailsPartway(w) ==
    /\ w \in DOMAIN worker
    /\ worker[w].pc = "write"
    /\ tasks'[worker[w].task].state = "Failed"

\* a thread takes task t, whose destination holds an incomplete file
TakesPartial(t) ==
    /\ pc = "pool"
    /\ nextTask = t
    /\ nextTask' = t + 1
    /\ download_args[t].dst_path \in DOMAIN fs
    /\ ~fs[download_args[t].dst_path].full

\* C27: in S3Download a fetch that fails partway leaves what was written at
\* the final destination path; a task that finds such a file is skipped without
\* a fetch when overwrite is false, and fetches the object again only when
\* overwrite is true.
C27_DirectWrite ==
    [][client = "s3" =>
        /\ \A w \in 1..MaxProc :
               FailsPartway(w) =>
                   /\ download_args[worker[w].task].dst_path \in DOMAIN fs'
                   /\ fs' = fs
        /\ \A t \in 1..Len(download_args) :
               TakesPartial(t) =>
                   IF download_args[t].overwrite
                   THEN tasks'[t].state = "Fetching" /\ tasks'[t].fetches = 1
                   ELSE /\ tasks'[t].state = "SkippedExists"
                        /\ tasks'[t].fetches = 0
                        /\ fs' = fs]_vars

\* a second call of S3Download with overwrite false has skipped an object
\* whose destination holds the incomplete file a failed fetch left there
C27_Witness ==
    /\ client = "s3"
    /\ runs = 2
    /\ ~args.overwrite
    /\ \E t \in 1..Len(tasks) :
           /\ tasks[t].state = "SkippedExists"
           /\ tasks[t].fetches = 0
           /\ download_args[t].dst_path \in DOMAIN fs
           /\ ~fs[download_args[t].dst_path].full

\* a second call of S3Download with overwrite true fetches such an object again
C27_WitnessOverwrite ==
    /\ client = "s3"
    /\ runs = 2
    /\ args.overwrite
    /\ prev.valid /\ ~prev.allDone
    /\ \E t \in 1..Len(tasks) :
           /\ tasks[t].state = "Completed"
           /\ tasks[t].existed = "yes"
           /\ tasks[t].fetches = 1

(* -------------------- claims on a shared destination ------------------- *)
\* thread v is writing the temporary file of its task and takes no step
StillWriting(v) ==
    /\ v \in DOMAIN worker
    /\ worker[v].pc = "write"
    /\ worker'[v] = worker[v]
    /\ TemporaryPath(download_args[worker[v].task].dst_path) \in DOMAIN fs
    /\ fs[TemporaryPath(download_args[worker[v].task].dst_path)].obj
           = download_args[worker[v].task].src_key

\* No thread removes, overwrites or renames the temporary file another
\* thread is still writing.
TemporaryFileKept ==
    [][client = "gs" =>
        \A v \in 1..MaxProc :
            StillWriting(v) =>
                LET temporary_path == TemporaryPath(download_args[worker[v].task].dst_path)
                IN /\ temporary_path \in DOMAIN fs'
                   /\ fs'[temporary_path] = fs[temporary_path]]_vars

\* After the batch the destination of two tasks, when present, holds the
\* complete content of one of the two objects.
OneCompleteContent ==
    (client = "gs" /\ pc = "returned") =>
        \A t, u \in 1..Len(download_args) :
            (t # u /\ download_args[t].dst_path = download_args[u].dst_path
                /\ tasks[t].picked > 0 /\ tasks[u].picked > 0
                /\ download_args[t].dst_path \in DOMAIN fs) =>
                /\ fs[download_args[t].dst_path].full
                /\ fs[download_args[t].dst_path].obj
                       \in {download_args[t].src_key, download_args[u].src_key}

\* C29: when two tasks of one batch of GoogleStorageDownload have the same
\* destination path and run on different threads, neither thread removes,
\* overwrites or renames the temporary file the other is still writing, and
\* the final path, when present after the batch, holds the complete content
\* of one of the two objects.
C29_SharedDestination == TemporaryFileKept /\ []OneCompleteContent

\* In a pool of one thread the final path, when present after the batch,
\* holds the complete content of one of the two objects.
C29_SharedDestinationDefaultPool == numProc = 1 => OneCompleteContent

(* ------------------- claims on an existing destination ----------------- *)
\* the task on which thread w takes the step
StepTask(w) == IF worker[w].pc = "idle" THEN worker'[w].task ELSE worker[w].task

\* thread w takes a step on a task with overwrite true that the step does
\* not complete: any step of a task whose fetch or rename fails is one
StepOfUncompleted(w) ==
    /\ w \in DOMAIN worker
    /\ w \in DOMAIN worker'
    /\ worker'[w] # worker[w]
    /\ download_args[StepTask(w)].overwrite
    /\ tasks'[StepTask(w)].state # "Completed"

\* C30: in GoogleStorageDownload a task with overwrite true whose fetch or
\* rename fails leaves the destination file that existed before it with the
\* content it had, and touches no path but its temporary sibling.
C30_DestinationKept ==
    [][client = "gs" =>
        \A w \in 1..MaxProc :
            StepOfUncompleted(w) =>
                \A q \in (DOMAIN fs \cup DOMAIN fs') :
                    q # TemporaryPath(download_args[StepTask(w)].dst_path) =>
                        /\ q \in DOMAIN fs
                        /\ q \in DOMAIN fs'
                        /\ fs'[q] = fs[q]]_vars

\* a task of GoogleStorageDownload with overwrite true has failed and the
\* destination that existed before it still holds the complete object
C30_Witness ==
    /\ client = "gs"
    /\ args.overwrite
    /\ \E t \in 1..Len(tasks) :
           /\ tasks[t].state = "Failed"
           /\ tasks[t].faulted
           /\ tasks[t].existed = "yes"
           /\ Returned(t)
           /\ download_args[t].dst_path \in DOMAIN fs
           /\ fs[download_args[t].dst_path]
                  = [obj |-> download_args[t].src_key, full |-> TRUE]

=============================================================================
